---- MODULE Spec2Model ----
(***************************************************************************)
(* GOT House Predictor (src/app.py): the serving context (model and        *)
(* feature_columns globals, loaded once by lifespan/load_artifacts) and    *)
(* the /predict request path: input validation against CharacterInput,     *)
(* the not-ready check, bool-to-int conversion, one-hot encoding with      *)
(* pd.get_dummies(dummy_na=True), alignment with DataFrame.reindex and     *)
(* the call of the opaque classifier.                                      *)
(***************************************************************************)
EXTENDS Integers, Sequences, FiniteSets, TLC

VARIABLES files, started, loads, model, feature_columns,
          body, df_encoded, df_aligned, response

vars == <<files, started, loads, model, feature_columns,
          body, df_encoded, df_aligned, response>>

(***************************************************************************)
(* Bounds of the exploration.                                              *)
(***************************************************************************)
\* longest canonical schema read from feature_columns.json
MaxSchemaLen == 2
\* number of fields in which a request body departs from BaseBody
MaxDeviations == 1

(***************************************************************************)
(* Values.  Every JSON / Python value is a cell of one shape, so that      *)
(* values of different Python types can be compared.                       *)
(*   kind "str": s is the text;  kind "int"/"float": n is the number;      *)
(*   kind "bool": n is 1 for True and 0 for False;  kind "none": None;     *)
(*   kind "nan": numpy's NaN;  kind "missing": key absent from the body.   *)
(***************************************************************************)
Str(v) == [kind |-> "str", s |-> v, n |-> 0]
Int_(i) == [kind |-> "int", s |-> "", n |-> i]
Float_(x) == [kind |-> "float", s |-> "", n |-> x]
Bool(b) == [kind |-> "bool", s |-> "", n |-> IF b THEN 1 ELSE 0]
None == [kind |-> "none", s |-> "", n |-> 0]
NaN == [kind |-> "nan", s |-> "", n |-> 0]
Missing == [kind |-> "missing", s |-> "", n |-> 0]

(***************************************************************************)
(* CharacterInput: the fields in declaration order and their types.        *)
(***************************************************************************)
CategoricalFields == <<"region", "primary_role", "alignment", "status", "species">>
RatingFields == <<"honour_1to5", "ruthlessness_1to5", "intelligence_1to5",
                  "combat_skill_1to5", "diplomacy_1to5", "leadership_1to5">>
OptionalTraits == <<"trait_strategic", "trait_impulsive", "trait_charismatic",
                    "trait_vengeful">>
RequiredTraits == <<"trait_loyal", "trait_scheming">>
TraitFields == OptionalTraits \o RequiredTraits
VersionField == "feature_set_version"
FieldOrder == CategoricalFields \o RatingFields \o TraitFields \o <<VersionField>>

Range(seq) == {seq[i] : i \in 1..Len(seq)}
Fields == Range(FieldOrder)

\* the declared type of a field
FieldType(f) ==
    IF f \in Range(CategoricalFields) THEN "str"
    ELSE IF f \in Range(RatingFields) THEN "int"
    ELSE IF f \in Range(TraitFields) THEN "bool"
    ELSE "float"

\* Optional[...] fields and their defaults
IsOptional(f) == f \in Range(OptionalTraits) \cup {VersionField}
Default(f) == IF f = VersionField THEN Float_(1) ELSE Bool(FALSE)

\* one field of the body against its declaration
FieldValid(f, c) ==
    \/ c.kind = FieldType(f)
    \/ IsOptional(f) /\ c.kind \in {"none", "missing"}

\* the request body is accepted as a CharacterInput
Valid(b) == \A f \in Fields : FieldValid(f, b[f])

\* the CharacterInput built from an accepted body
CharacterInput(b) ==
    [f \in Fields |-> IF b[f].kind = "missing" THEN Default(f) ELSE b[f]]


(***************************************************************************)
(* predict, lines 68-74: character.dict() and the bool -> int conversion.  *)
(* Only values that are instances of bool are converted; None stays None.  *)
(***************************************************************************)
BoolsToInts(data) ==
    [f \in Fields |-> IF data[f].kind = "bool" THEN Int_(data[f].n) ELSE data[f]]

(***************************************************************************)
(* A one-row DataFrame: its columns in order, each a name and the value of *)
(* the single row.  Column names need not be unique.                       *)
(***************************************************************************)
Column(name, value) == [name |-> name, value |-> value]

\* pd.DataFrame([data]): one column per key, in dict (declaration) order
DataFrame(data) ==
    [i \in 1..Len(FieldOrder) |-> Column(FieldOrder[i], data[FieldOrder[i]])]

\* a column of str or None values has dtype object
IsObjectColumn(col) == col.value.kind \in {"str", "none"}

ColumnNames(df) == [i \in 1..Len(df) |-> df[i].name]

\* the positions of the columns called name
Positions(df, name) == {i \in 1..Len(df) : df[i].name = name}

\* f"{level}" of a level of a categorical column
FormatLevel(level) == IF level.kind = "nan" THEN "nan" ELSE level.s

\* the levels of a one-row column: its value unless it is null, then, for
\* dummy_na=True, NaN appended
Levels(col) ==
    (IF col.value.kind = "none" THEN <<>> ELSE <<col.value>>) \o <<NaN>>

\* the position in Levels(col) of the row's value: a null row has the code of
\* the appended NaN level
Code(col) == IF col.value.kind = "none" THEN Len(Levels(col)) ELSE 1

\* the indicator columns of one object column: "<prefix>_<level>" per level
Dummies(col) ==
    [j \in 1..Len(Levels(col)) |->
        Column(col.name \o "_" \o FormatLevel(Levels(col)[j]),
               Int_(IF j = Code(col) THEN 1 ELSE 0))]

RECURSIVE ConcatDummies(_)
ConcatDummies(cols) ==
    IF cols = <<>> THEN <<>>
    ELSE Dummies(Head(cols)) \o ConcatDummies(Tail(cols))

\* pd.get_dummies(df, dummy_na=True): the columns that are not encoded, then
\* the indicator columns of every object column, in column order
get_dummies(df) ==
    SelectSeq(df, LAMBDA c : ~IsObjectColumn(c))
        \o ConcatDummies(SelectSeq(df, IsObjectColumn))

\* the Encoder of the predict path, lines 68-80
Encode(character) == get_dummies(DataFrame(BoolsToInts(character)))

(***************************************************************************)
(* feature_columns: None, or the list read from feature_columns.json.      *)
(***************************************************************************)
NoColumns == [set |-> FALSE, columns |-> <<>>]
Columns(schema) == [set |-> TRUE, columns |-> schema]

HasDuplicates(names) ==
    \E i, j \in 1..Len(names) : i < j /\ names[i] = names[j]

\* the value reindex puts under a requested column name
Lookup(df, name) ==
    IF Positions(df, name) = {} THEN Int_(0)
    ELSE df[CHOOSE i \in Positions(df, name) : TRUE].value

reindex_keeping_extra(df, fc) ==
    IF ~fc.set THEN [raised |-> FALSE, frame |-> df]
    ELSE IF HasDuplicates(ColumnNames(df)) THEN [raised |-> TRUE, frame |-> <<>>]
    ELSE [raised |-> FALSE,
          frame |-> [i \in 1..Len(fc.columns) |->
                        Column(fc.columns[i], Lookup(df, fc.columns[i]))]
                    \o SelectSeq(df, LAMBDA c : c.name \notin Range(fc.columns))]

\* df.reindex(columns=feature_columns, fill_value=0), line 84: columns=None
\* leaves the frame as it is; a frame whose column labels are not unique
\* cannot be reindexed (ValueError); otherwise one column per requested name,
\* in the requested order, 0 where the frame has no such column
reindex(df, fc) ==
    IF ~fc.set THEN [raised |-> FALSE, frame |-> df]
    ELSE IF HasDuplicates(ColumnNames(df)) THEN [raised |-> TRUE, frame |-> <<>>]
    ELSE [raised |-> FALSE,
          frame |-> [i \in 1..Len(fc.columns) |->
                        Column(fc.columns[i], Lookup(df, fc.columns[i]))]]

Values(df) == [i \in 1..Len(df) |-> df[i].value]


(***************************************************************************)
(* The artifact directory model_artifacts/ as the process finds it.        *)
(*   model:    "absent", "corrupt" (joblib.load raises) or "ok"            *)
(*   features: "absent", "unreadable" (open/json.load raises),             *)
(*             "no_columns" (no "columns" key: KeyError),                  *)
(*             "null_columns" ("columns": null) or "ok"                    *)
(*   columns:  the list under "columns" when features is "ok"              *)
(***************************************************************************)
SchemaNames == {"region_North", "region_nan", "honour_1to5", "feature_set_version"}

RECURSIVE SchemasOfLen(_)
SchemasOfLen(k) ==
    IF k = 0 THEN {<<>>}
    ELSE {Append(sch, name) : sch \in SchemasOfLen(k - 1), name \in SchemaNames}

\* canonical schemas: column names are unique
Schemas ==
    {sch \in UNION {SchemasOfLen(k) : k \in 0..MaxSchemaLen} : ~HasDuplicates(sch)}

ArtifactFiles ==
    {[model |-> m, features |-> "ok", columns |-> sch] :
        m \in {"absent", "corrupt", "ok"}, sch \in Schemas}
    \cup
    {[model |-> m, features |-> ft, columns |-> <<>>] :
        m \in {"absent", "corrupt", "ok"},
        ft \in {"absent", "unreadable", "no_columns", "null_columns"}}

\* both files are there, the model unpickles and the descriptor holds a list
ArtifactsGood(f) == f.model = "ok" /\ f.features = "ok"

load_artifacts_with_fallback(f, m, fc) ==
    IF f.model = "absent" \/ f.features = "absent"
    THEN [model |-> m, feature_columns |-> fc]
    ELSE IF f.model = "corrupt"
    THEN [model |-> m, feature_columns |-> Columns(<<>>)]
    ELSE IF f.features \in {"unreadable", "no_columns"}
    THEN [model |-> "clf", feature_columns |-> Columns(<<>>)]
    ELSE IF f.features = "null_columns"
    THEN [model |-> "clf", feature_columns |-> NoColumns]
    ELSE [model |-> "clf", feature_columns |-> Columns(f.columns)]

\* load_artifacts, lines 35-53: the globals after the call, given the globals
\* (m, fc) before it.  A missing file returns early; an exception in the try
\* block is caught and leaves what was assigned before it.
load_artifacts(f, m, fc) ==
    IF f.model = "absent" \/ f.features = "absent"
    THEN [model |-> m, feature_columns |-> fc]
    ELSE IF f.model = "corrupt"
    THEN [model |-> m, feature_columns |-> fc]
    ELSE IF f.features \in {"unreadable", "no_columns"}
    THEN [model |-> "clf", feature_columns |-> fc]
    ELSE IF f.features = "null_columns"
    THEN [model |-> "clf", feature_columns |-> NoColumns]
    ELSE [model |-> "clf", feature_columns |-> Columns(f.columns)]

(***************************************************************************)
(* Request bodies: BaseBody with up to MaxDeviations fields replaced.      *)
(***************************************************************************)
BaseBody ==
    [f \in Fields |->
        CASE f = "region" -> Str("North")
          [] f = "primary_role" -> Str("Knight")
          [] f = "alignment" -> Str("Lawful")
          [] f = "status" -> Str("Alive")
          [] f = "species" -> Str("Human")
          [] f \in Range(RatingFields) -> Int_(3)
          [] f \in Range(OptionalTraits) -> Missing
          [] f = "trait_loyal" -> Bool(TRUE)
          [] f = "trait_scheming" -> Bool(FALSE)
          [] OTHER -> Missing]

Alternatives(f) ==
    CASE f \in Range(CategoricalFields) -> {Str("nan"), Str("Other"), Missing}
      [] f \in Range(RatingFields) -> {Int_(5), Str("high")}
      [] f \in Range(OptionalTraits) -> {Bool(TRUE), None}
      [] f = "trait_loyal" -> {Bool(FALSE), Missing}
      [] f = "trait_scheming" -> {Bool(TRUE), None}
      [] OTHER -> {Float_(2), None}

RECURSIVE BodiesWithin(_)
BodiesWithin(k) ==
    IF k = 0 THEN {BaseBody}
    ELSE BodiesWithin(k - 1) \cup
         {[b EXCEPT ![f] = a] :
            b \in BodiesWithin(k - 1),
            <<f, a>> \in UNION {{<<g, c>> : c \in Alternatives(g)} : g \in Fields}}

Bodies == BodiesWithin(MaxDeviations)

\* what model.predict does with the aligned frame: a label, or it raises
Labels == {"Stark", "Lannister"}
PredictOutcomes == Labels \cup {"raise"}

(***************************************************************************)
(* Responses.                                                              *)
(***************************************************************************)
NoResponse == [kind |-> "none", status |-> 0, detail |-> ""]
ValidationRejected == [kind |-> "validation", status |-> 422, detail |-> "validation error"]
NotReadyResponse ==
    [kind |-> "not_ready", status |-> 503,
     detail |-> "Model not loaded. Please check server logs."]
PredictionFailed(msg) ==
    [kind |-> "prediction_failed", status |-> 500, detail |-> "Prediction failed: " \o msg]
LabelResponse(label) == [kind |-> "label", status |-> 200, detail |-> label]
\* an exception that leaves predict uncaught
UnhandledException(msg) == [kind |-> "unhandled", status |-> 500, detail |-> msg]

NoFrame == <<>>

(***************************************************************************)
(* State machine.                                                          *)
(***************************************************************************)
Init ==
    /\ files \in ArtifactFiles
    /\ started = FALSE
    /\ loads = 0
    /\ model = "None"
    /\ feature_columns = NoColumns
    /\ body = BaseBody
    /\ df_encoded = NoFrame
    /\ df_aligned = NoFrame
    /\ response = NoResponse

lifespan_reloading ==
    /\ loads < 2
    /\ LET r == load_artifacts(files, model, feature_columns)
       IN /\ model' = r.model
          /\ feature_columns' = r.feature_columns
    /\ started' = TRUE
    /\ loads' = loads + 1
    /\ UNCHANGED <<files, body, df_encoded, df_aligned, response>>

\* lifespan, lines 55-58: load_artifacts() runs at startup, before the
\* application serves (yield)
lifespan ==
    /\ ~started
    /\ LET r == load_artifacts(files, model, feature_columns)
       IN /\ model' = r.model
          /\ feature_columns' = r.feature_columns
    /\ started' = TRUE
    /\ loads' = loads + 1
    /\ UNCHANGED <<files, body, df_encoded, df_aligned, response>>

\* a body that does not validate as CharacterInput (lines 11-29, the type of
\* predict's parameter, line 63) is answered before predict is called
request_rejected(b) ==
    /\ started
    /\ response = NoResponse
    /\ ~Valid(b)
    /\ body' = b
    /\ df_encoded' = NoFrame
    /\ df_aligned' = NoFrame
    /\ response' = ValidationRejected
    /\ UNCHANGED <<files, started, loads, model, feature_columns>>

not_loaded_when_both_unset(m, fc) == m = "None" /\ ~fc.set

\* line 64: model is None or feature_columns is None
not_loaded(m, fc) == m = "None" \/ ~fc.set

\* predict, lines 62-91, for an accepted body; outcome is what model.predict
\* does if it is reached
predict(b, outcome) ==
    /\ started
    /\ response = NoResponse
    /\ Valid(b)
    /\ body' = b
    /\ IF not_loaded(model, feature_columns)
       THEN /\ df_encoded' = NoFrame
            /\ df_aligned' = NoFrame
            /\ response' = NotReadyResponse
       ELSE LET encoded == Encode(CharacterInput(b))
                aligned == reindex(encoded, feature_columns)
            IN /\ df_encoded' = encoded
               /\ df_aligned' = aligned.frame
               /\ response' =
                    IF aligned.raised
                    THEN UnhandledException("cannot reindex on an axis with duplicate labels")
                    ELSE IF model = "None"
                    THEN PredictionFailed("'NoneType' object has no attribute 'predict'")
                    ELSE IF outcome = "raise"
                    THEN PredictionFailed("model error")
                    ELSE LabelResponse(outcome)
    /\ UNCHANGED <<files, started, loads, model, feature_columns>>

\* the response has been sent: the input record, the encoded map and the
\* aligned frame are per-request values and are discarded
request_done ==
    /\ response # NoResponse
    /\ body' = BaseBody
    /\ df_encoded' = NoFrame
    /\ df_aligned' = NoFrame
    /\ response' = NoResponse
    /\ UNCHANGED <<files, started, loads, model, feature_columns>>

Next ==
    \/ lifespan
    \/ request_done
    \/ \E b \in Bodies : request_rejected(b)
    \/ \E b \in Bodies, outcome \in PredictOutcomes : predict(b, outcome)

Spec == Init /\ [][Next]_vars


(***************************************************************************)
(* Properties.                                                             *)
(***************************************************************************)
\* a request has been answered and its response is on display
Responded == response # NoResponse
\* the last request passed the not-ready check of line 64
PastReadyCheck == response.kind \in {"label", "prediction_failed", "unhandled"}
\* the schema the aligner works against
Schema == feature_columns.columns
\* the outcome of alignment in the last request, in the shape of reindex
AlignedOutcome == [raised |-> response.kind = "unhandled", frame |-> df_aligned]

\* C1 as stated: while the model or the schema is unset, every answered
\* request, valid or malformed, is answered "not ready" (503).
C1_NotReadyRegardlessOfValidity ==
    (model = "None" \/ ~feature_columns.set) /\ Responded
        => response = NotReadyResponse

\* C1 amended: while the model or the schema is unset, a request whose body
\* validates is answered "not ready" (503) and a malformed body is answered
\* with the validation rejection; never a label or a prediction failure.
C1_NotReadyForAcceptedInput ==
    (model = "None" \/ ~feature_columns.set) /\ Responded
        => response = (IF Valid(body) THEN NotReadyResponse ELSE ValidationRejected)

C1_Witness ==
    /\ started /\ model = "clf" /\ ~feature_columns.set
    /\ Valid(body) /\ response = NotReadyResponse

\* C2 as stated: every accepted record that passes the not-ready check is
\* aligned, without failure, to a vector as long as the schema.
C2_AlignedLengthIsSchemaLength ==
    PastReadyCheck =>
        /\ response.kind # "unhandled"
        /\ Len(df_aligned) = Len(Schema)

\* C3 as stated: alignment never raises, and position i of the aligned vector
\* holds the encoded value under Schema[i] if there is one and 0 otherwise.
C3_AlignmentIsSchemaOrderedLookup ==
    PastReadyCheck =>
        /\ response.kind # "unhandled"
        /\ ColumnNames(df_aligned) = Schema
        /\ \A i \in 1..Len(Schema) :
            /\ \A j \in 1..Len(df_encoded) :
                  df_encoded[j].name = Schema[i]
                      => df_aligned[i].value = df_encoded[j].value
            /\ (\A j \in 1..Len(df_encoded) : df_encoded[j].name # Schema[i])
                      => df_aligned[i].value = Int_(0)

\* the encoding of the record with field f left out of the frame
EncodeWithout(character, f) ==
    get_dummies(SelectSeq(DataFrame(BoolsToInts(character)), LAMBDA c : c.name # f))

\* the indicator names of field f over the values requests carry
IndicatorGroup(f) ==
    {f \o "_" \o c.s : c \in {BaseBody[f]} \cup {a \in Alternatives(f) : a.kind = "str"}}

\* C4 as stated: a categorical value whose indicator name is not in the schema
\* raises nothing, leaves every schema position of that field's indicator
\* group 0 and aligns exactly like the record without that field.
C4_UnknownCategoryAlignsAsAbsent ==
    PastReadyCheck =>
        \A f \in Range(CategoricalFields) :
            (f \o "_" \o body[f].s) \notin Range(Schema)
                => /\ response.kind # "unhandled"
                   /\ \A i \in 1..Len(df_aligned) :
                        df_aligned[i].name \in IndicatorGroup(f)
                            => df_aligned[i].value.n = 0
                   /\ df_aligned =
                        reindex(EncodeWithout(CharacterInput(body), f),
                                feature_columns).frame

\* C5 as stated: every answered request is a label, a validation rejection,
\* not-ready or prediction-failed; failures after the not-ready check are
\* prediction-failed.
C5_OutcomeIsLabelOrOneOfThreeErrors ==
    Responded =>
        response.kind \in {"label", "validation", "not_ready", "prediction_failed"}

\* C6: loading has run exactly once before any request is answered, and once
\* the application has started no step loads again or changes the model or
\* the schema.
C6_LoadedOnceThenFrozen ==
    /\ [](Responded => started /\ loads = 1)
    /\ [][started => /\ started'
                     /\ loads' = loads
                     /\ model' = model
                     /\ feature_columns' = feature_columns]_vars

C6_Witness ==
    /\ started /\ loads = 1 /\ model = "clf" /\ feature_columns.set
    /\ response.kind = "label"

\* C7 as stated: after a failed load the context is not ready and every
\* answered request is answered "not ready"; a label needs both artifacts.
C7_FailedLoadRejectsEveryRequest ==
    /\ started /\ ~ArtifactsGood(files) =>
          /\ model = "None" \/ ~feature_columns.set
          /\ Responded => response = NotReadyResponse
    /\ response.kind = "label" => ArtifactsGood(files)

\* C7 amended: loading always completes and the application starts; after a
\* failed load the model or the schema is unset, every request whose body
\* validates is answered "not ready" (a malformed body is answered with the
\* validation rejection), and a label is returned only when both artifacts
\* loaded.
C7_FailedLoadRejectsAcceptedRequests ==
    /\ loads = 1 <=> started
    /\ started /\ ~ArtifactsGood(files) =>
          /\ model = "None" \/ ~feature_columns.set
          /\ Responded =>
                response.kind = (IF Valid(body) THEN "not_ready" ELSE "validation")
    /\ response.kind = "label" => ArtifactsGood(files)

C7_Witness ==
    /\ started /\ files.model = "ok" /\ files.features = "no_columns"
    /\ model = "clf" /\ ~feature_columns.set
    /\ response = NotReadyResponse

\* values of feature_set_version a request can carry
VersionValues == {Float_(1), Float_(2), None}

\* the record of the last request with another feature_set_version
WithVersion(v) == [CharacterInput(body) EXCEPT ![VersionField] = v]

C9_TwoDistinctIndicatorKeys ==
    PastReadyCheck =>
        \A f \in Range(CategoricalFields) :
            LET valueKey == f \o "_" \o body[f].s
                nanKey == f \o "_nan"
            IN /\ valueKey # nanKey
               /\ \E i, j \in 1..Len(df_encoded) :
                    /\ Positions(df_encoded, valueKey) = {i}
                    /\ Positions(df_encoded, nanKey) = {j}
                    /\ df_encoded[i].value = Int_(1)
                    /\ df_encoded[j].value = Int_(0)

\* C10 as stated: every trait field of an accepted record is in the encoded
\* map under its own name with 0 or 1 (false -> 0, true -> 1) and has no
\* indicator column; every rating is there under its own name, unchanged.
C10_TraitsAndRatingsPassThrough ==
    PastReadyCheck =>
        /\ \A t \in Range(TraitFields) :
            /\ \E i \in 1..Len(df_encoded) :
                 /\ Positions(df_encoded, t) = {i}
                 /\ df_encoded[i].value \in {Int_(0), Int_(1)}
                 /\ CharacterInput(body)[t].kind = "bool"
                      => df_encoded[i].value.n = CharacterInput(body)[t].n
            /\ Positions(df_encoded, t \o "_nan") = {}
        /\ \A r \in Range(RatingFields) :
            \E i \in 1..Len(df_encoded) :
                 /\ Positions(df_encoded, r) = {i}
                 /\ df_encoded[i].value = body[r]

====
